---- MODULE Spec2Model ----
(***************************************************************************)
(* Model of okx_.py: export of the OKX withdrawal history with deep        *)
(* pagination (dump_withdrawals), the signed GET (okx_get / sign), the     *)
(* retrying session (build_session) and the CSV / JSONL writers.           *)
(*                                                                         *)
(* Text values that the code inspects (addresses, decimal timestamps) are  *)
(* sequences of one-character strings; values that are only passed through *)
(* or compared for equality are TLA+ strings.  A record (a Python dict) is *)
(* a sequence of <<key, value>> pairs in insertion order.                  *)
(***************************************************************************)
EXTENDS Integers, Sequences, FiniteSets, TLC

\* ------------------------------------------------------------------ bounds
\* longest server history
MaxHist == 2
\* largest record timestamp
MaxTs == 3
\* largest page the server hands out (the server serves min(limit, cap))
PageCap == 2

\* ------------------------------------------------------- program constants
LIMIT == 100
ENDPOINT == "/api/v5/asset/withdrawal-history"
\* Retry(total=10, backoff_factor=0.5, status_forcelist=(429,500,502,503,504))
RETRY_TOTAL == 10
\* backoff_factor in milliseconds
BACKOFF_FACTOR_MS == 500
\* urllib3's ceiling of one backoff delay (120 s), in milliseconds
BACKOFF_MAX_MS == 120 * 1000
STATUS_FORCELIST == {429, 500, 502, 503, 504}
\* time.sleep(0.2) between pages, in milliseconds
PAGE_SLEEP_MS == 200

\* Optional[T]: None is the empty sequence, a value x is <<x>>
None == <<>>
Some(x) == <<x>>
IsNone(o) == Len(o) = 0
ValueOf(o) == o[1]

\* ------------------------------------------------------------ text helpers
Min(a, b) == IF a <= b THEN a ELSE b

Digits == <<"0", "1", "2", "3", "4", "5", "6", "7", "8", "9">>

DigitVal(c) == (CHOOSE i \in 1..10 : Digits[i] = c) - 1

RECURSIVE NatStr(_)
\* decimal digits of a natural number
NatStr(n) == IF n < 10 THEN <<Digits[n + 1]>>
             ELSE NatStr(n \div 10) \o <<Digits[(n % 10) + 1]>>

\* str(n) of a Python int
StrOfInt(n) == IF n < 0 THEN <<"-">> \o NatStr(0 - n) ELSE NatStr(n)

RECURSIVE NatOfStr(_)
NatOfStr(s) == IF Len(s) = 0 THEN 0
               ELSE 10 * NatOfStr(SubSeq(s, 1, Len(s) - 1)) + DigitVal(s[Len(s)])

\* int(s) of a decimal string
IntOfStr(s) == IF Len(s) > 0 /\ s[1] = "-" THEN 0 - NatOfStr(Tail(s)) ELSE NatOfStr(s)

\* str.lower() on one character
LowerChar(c) == CASE c = "A" -> "a"
                  [] c = "B" -> "b"
                  [] c = "C" -> "c"
                  [] c = "X" -> "x"
                  [] c = "Z" -> "z"
                  [] OTHER -> c

\* str.lower()
Lower(s) == [i \in 1..Len(s) |-> LowerChar(s[i])]

\* a in s  (substring test)
Contains(s, a) == \E i \in 0..(Len(s) - Len(a)) : SubSeq(s, i + 1, i + Len(a)) = a

RECURSIVE Join(_)
\* " ".join(fields)
Join(fields) == IF Len(fields) = 0 THEN <<>>
                ELSE IF Len(fields) = 1 THEN fields[1]
                ELSE fields[1] \o <<" ">> \o Join(Tail(fields))

\* --------------------------------------------------------- dict operations
\* list(d.keys())
Keys(r) == [i \in 1..Len(r) |-> r[i][1]]

HasKey(r, k) == \E i \in 1..Len(r) : r[i][1] = k

\* d.get(k, default)
Get(r, k, default) == IF HasKey(r, k)
                      THEN r[CHOOSE i \in 1..Len(r) : r[i][1] = k][2]
                      ELSE default

\* {**r, k: v} for a key that r already holds
WithKey(r, k, v) == [i \in 1..Len(r) |-> IF r[i][1] = k THEN <<k, v>> ELSE r[i]]

RECURSIVE Dedup(_)
\* list(dict.fromkeys(s)): first occurrence of every element, in order
Dedup(s) == IF Len(s) = 0 THEN <<>>
            ELSE <<s[1]>> \o Dedup(SelectSeq(Tail(s), LAMBDA x : x # s[1]))

RECURSIVE Concat(_)
\* flattening of a sequence of sequences
Concat(ss) == IF Len(ss) = 0 THEN <<>> ELSE ss[1] \o Concat(Tail(ss))

Range(s) == {s[i] : i \in 1..Len(s)}

\* ------------------------------------------------------------ record values
\* a string value of a record
Str(s) == [tag |-> "str", v |-> s]
\* an object-valued field (dict / list)
Obj(s) == [tag |-> "obj", v |-> s]
\* json.dumps(value, ensure_ascii=False) of an object-valued field
JsonDumps(x) == [tag |-> "str", v |-> <<"{">> \o x.v \o <<"}">>]
\* isinstance(x, (dict, list))
IsObj(x) == x.tag = "obj"
\* str(x) as used on the address-bearing fields
PyStr(x) == IF IsObj(x) THEN JsonDumps(x).v ELSE x.v

EmptyStr == Str(<<>>)

\* int(r.get("ts", "0"))
TsOf(r) == IntOfStr(Get(r, "ts", Str(<<"0">>)).v)

\* the record's identity on the server
IdOf(r) == Get(r, "wdId", EmptyStr).v

\* ------------------------------------------------------------------ server
\* The withdrawal records the server can hold.  Two layouts: A starts with
\* canonical keys, has a mixed-case destination address, an object-valued
\* addrEx and one key outside the canonical list; B has another key order,
\* another currency, a novel key and no address that the filter looks for.
Shapes == {"A", "B"}

RecordOf(shape, i, t) ==
    IF shape = "A"
    THEN << <<"wdId", Str(StrOfInt(i))>>, <<"ts", Str(StrOfInt(t))>>,
            <<"ccy", Str(<<"U", "S", "D", "T">>)>>,
            <<"to", Str(<<"0", "x", "A", "B", "C", "1", "2", "3">>)>>,
            <<"addrEx", Obj(<<"k", ":", "v">>)>>,
            <<"chainTag", Str(<<"y">>)>> >>
    ELSE << <<"ts", Str(StrOfInt(t))>>, <<"wdId", Str(StrOfInt(i))>>,
            <<"ccy", Str(<<"B", "T", "C">>)>>,
            <<"extraField", Str(<<"x">>)>>,
            <<"memo", Str(<<"m">>)>> >>

\* the histories a server can hold, newest first
Histories == UNION {
    { [i \in 1..n |-> RecordOf(sh[i], i, ts[i])] :
        ts \in {f \in [1..n -> 1..MaxTs] : \A i \in 1..(n - 1) : f[i] >= f[i + 1]},
        sh \in [1..n -> Shapes] } : n \in 0..MaxHist }

RECURSIVE Take(_, _)
\* the first n elements of s
Take(s, n) == IF n <= 0 \/ Len(s) = 0 THEN <<>> ELSE <<s[1]>> \o Take(Tail(s), n - 1)

RECURSIVE SelectRows(_, _, _, _)
\* the records of h that a query selects, in server order
SelectRows(h, qccy, qbefore, qafter) ==
    IF Len(h) = 0 THEN <<>>
    ELSE LET r == h[1]
             ok == /\ (IsNone(qccy) \/ Get(r, "ccy", EmptyStr).v = ValueOf(qccy))
                   /\ (IsNone(qbefore) \/ TsOf(r) <= IntOfStr(ValueOf(qbefore)))
                   /\ (IsNone(qafter) \/ TsOf(r) < IntOfStr(ValueOf(qafter)))
         IN  (IF ok THEN <<r>> ELSE <<>>) \o SelectRows(Tail(h), qccy, qbefore, qafter)

\* query parameter lookup
Param(params, k) == IF HasKey(params, k) THEN Some(Get(params, k, <<>>)) ELSE None

\* The server's answer to GET withdrawal-history: newest first, at most
\* min(limit, cap) records, `after` = strictly older than, `before` = upper bound.
ServerPage(h, params, cap) ==
    Take(SelectRows(h, Param(params, "ccy"), Param(params, "before"), Param(params, "after")),
         Min(IntOfStr(Get(params, "limit", <<"0">>)), cap))

\* ------------------------------------------------------------------ signer
\* sign(): Base64(HMAC_SHA256(timestamp + method + requestPath + body, secret)),
\* kept as the pair of the key and the signed message
Sign(secret, timestamp, method, request_path, body) ==
    <<secret, <<timestamp, method, request_path, body>>>>

\* --------------------------------------------------------------- paginator
\* variant: the end bound sent with every request
BuildParams_beforeAlways(pccy, pend, cursor) ==
    << <<"limit", StrOfInt(LIMIT)>> >>
    \o (IF Len(pccy) > 0 THEN << <<"ccy", ValueOf(pccy)>> >> ELSE <<>>)
    \o (IF ~IsNone(pend) THEN << <<"before", StrOfInt(ValueOf(pend))>> >> ELSE <<>>)
    \o (IF ~IsNone(cursor) THEN << <<"after", StrOfInt(ValueOf(cursor))>> >> ELSE <<>>)

\* request parameters of one loop iteration
BuildParams(pccy, pend, cursor) ==
    << <<"limit", StrOfInt(LIMIT)>> >>
    \o (IF Len(pccy) > 0 THEN << <<"ccy", ValueOf(pccy)>> >> ELSE <<>>)
    \o (IF IsNone(cursor) /\ ~IsNone(pend)
        THEN << <<"before", StrOfInt(ValueOf(pend))>> >> ELSE <<>>)
    \o (IF ~IsNone(cursor) THEN << <<"after", StrOfInt(ValueOf(cursor))>> >> ELSE <<>>)

\* path + "?" + urlencode(params)
RequestPath(path, params) == <<path, "?", params>>

RECURSIVE MinTs(_)
\* min(int(r.get("ts", "0")) for r in rows_all), rows_all not empty
MinTs(rows) == IF Len(rows) = 1 THEN TsOf(rows[1])
               ELSE Min(TsOf(rows[1]), MinTs(Tail(rows)))

RECURSIVE MaxTsOf(_)
MaxTsOf(rows) == IF Len(rows) = 1 THEN TsOf(rows[1])
                 ELSE LET m == MaxTsOf(Tail(rows)) IN IF TsOf(rows[1]) >= m THEN TsOf(rows[1]) ELSE m

\* variant: the cursor taken from the newest record of the page
NextCursor_newest(rows_all) == MaxTsOf(rows_all) - 1

\* variant: the cursor put just above the page, which asks for the page again
NextCursor_stay(rows_all) == MaxTsOf(rows_all) + 1

\* variant: the decrement left out
NextCursor_nodec(rows_all) == MinTs(rows_all)

\* after_cursor = min_ts - 1
NextCursor(rows_all) == MinTs(rows_all) - 1

\* ------------------------------------------------------------------ filter
\* [r for r in rows_all if int(r.get("ts", "0")) >= start_ms]
TimeFilter(rows, pstart) ==
    IF IsNone(pstart) THEN rows
    ELSE SelectSeq(rows, LAMBDA r : TsOf(r) >= ValueOf(pstart))

AddrFields == <<"to", "toAddr", "addr", "from", "memo", "tag">>

\* row_has_addr(r)
RowHasAddr(r, aset) ==
    LET fields == [i \in 1..Len(AddrFields) |-> PyStr(Get(r, AddrFields[i], EmptyStr))]
    IN  \E s_all \in {Lower(Join(fields))} :
            \E a \in aset : Len(a) > 0 /\ Contains(s_all, a)

\* [r for r in rows if row_has_addr(r)], only when addr_set is truthy
AddrFilter(rows, paddr) ==
    IF IsNone(paddr) \/ ValueOf(paddr) = {} THEN rows
    ELSE SelectSeq(rows, LAMBDA r : RowHasAddr(r, {Lower(a) : a \in ValueOf(paddr)}))

\* variant: the start bound exclusive
FilterRows_strict(rows_all, pstart, paddr) ==
    AddrFilter(SelectSeq(rows_all, LAMBDA r : IsNone(pstart) \/ TsOf(r) > ValueOf(pstart)),
               paddr)

\* the rows of a page that are written
FilterRows(rows_all, pstart, paddr) == AddrFilter(TimeFilter(rows_all, pstart), paddr)

\* ------------------------------------------------------------------ writer
base_keys == <<"wdId", "ts", "ccy", "amt", "state", "fee", "feeCcy",
               "chain", "txId", "to", "toAddrType", "from", "areaCodeFrom",
               "areaCodeTo", "nonTradableAsset", "clientId", "note", "tag",
               "pmtId", "memo", "addrEx">>

\* variant: the common keys put in front of the keys of the rows
FieldOrder_canonicalFirst(rows) ==
    Dedup(base_keys \o Concat([i \in 1..Len(rows) |-> Keys(rows[i])]))

\* list(dict.fromkeys([k for r in rows for k in r.keys()] + base_keys))
FieldOrder(rows) == Dedup(Concat([i \in 1..Len(rows) |-> Keys(rows[i])]) \o base_keys)

HeaderLine(fields) == [kind |-> "header", cols |-> fields, vals |-> <<>>, id |-> <<>>]

\* write_csv_row after the addrEx stringification
CsvLine(r, fields) ==
    LET r2 == IF IsObj(Get(r, "addrEx", EmptyStr))
              THEN WithKey(r, "addrEx", JsonDumps(Get(r, "addrEx", EmptyStr)))
              ELSE r
    IN  [kind |-> "row", cols |-> fields,
         vals |-> [i \in 1..Len(fields) |-> Get(r2, fields[i], EmptyStr)],
         id |-> IdOf(r)]

\* json.dumps(r, ensure_ascii=False) + "\n"
JsonLine(r) == [kind |-> "json", cols |-> Keys(r),
                vals |-> [i \in 1..Len(r) |-> r[i][2]], id |-> IdOf(r)]

\* the lines one page appends to the output
PageLines(pfmt, rows, fields) ==
    IF pfmt = "csv" THEN [i \in 1..Len(rows) |-> CsvLine(rows[i], fields)]
    ELSE [i \in 1..Len(rows) |-> JsonLine(rows[i])]

\* --------------------------------------------------------------- transport
\* variant: the delay computed before the first retry as well
BackoffTime_first(n) == Min(BACKOFF_MAX_MS, BACKOFF_FACTOR_MS * (2 ^ (n - 1)))

\* Retry.get_backoff_time() after n consecutive failed attempts, in ms:
\* nothing before the first retry, then backoff_factor * 2^(n-1), capped
BackoffTime(n) == IF n <= 1 THEN 0 ELSE Min(BACKOFF_MAX_MS, BACKOFF_FACTOR_MS * (2 ^ (n - 1)))

\* HTTP statuses the session does not retry and raise_for_status() rejects
FatalStatuses == {400, 401, 403}

\* ------------------------------------------------------------------- state
VARIABLES
    history,       \* the server's records, newest first
    pageCap,       \* the server's page size ceiling
    fmt,           \* argument fmt
    ccy,           \* argument ccy (Optional)
    start_ms,      \* argument start_ms (Optional)
    end_ms,        \* argument end_ms (Optional)
    addr_set,      \* argument addr_set (Optional set)
    env,           \* OKX_KEY / OKX_SECRET / OKX_PASSPHRASE of the process environment
    pc,            \* position of dump_withdrawals
    f_out,         \* "none" | "open" | "closed"
    out,           \* lines of the file at out_path
    saved,
    field_order,
    csv_writer,    \* Optional: the DictWriter's fieldnames
    after_cursor,  \* Optional int
    page_idx,
    req,           \* the logical request in flight: params, headers
    errors,        \* failed attempts of the request in flight (Retry.history)
    backoffs,      \* backoff delays slept for the request in flight
    resp,          \* data of the last successful response
    now,           \* the clock, in ms
    requests,      \* log: params of every logical request
    attempts,      \* log: request number, timestamp and signature of every HTTP attempt
    pages,         \* log: the data of every successful response
    answers,       \* log: how every HTTP attempt was answered
    progress,      \* log: lines printed to stderr
    stop,          \* how the loop was left: "" | "exhausted" | "early"
    result         \* <<>> | <<"return", saved>> | <<"raise", exception>>

server == <<history, pageCap>>
argv == <<fmt, ccy, start_ms, end_ms, addr_set>>
writer == <<f_out, out, saved, field_order, csv_writer>>
loopv == <<after_cursor, page_idx, progress, stop>>
transport == <<req, errors, backoffs, resp, now, requests, attempts, pages, answers>>
vars == <<server, argv, env, pc, writer, loopv, transport, result>>

\* The request log is kept finite: a run against a history of MaxHist records
\* that advances its cursor gets at least one record per page, so it sends
\* at most MaxHist + 1 requests, and the bound leaves one more to spare.
MaxRequests == MaxHist + 2

\* what the environment can hold for the three credentials (after strip())
Envs == { [key |-> "K", secret |-> "S", passphrase |-> "P"],
          [key |-> "",  secret |-> "S", passphrase |-> "P"],
          [key |-> "K", secret |-> "",  passphrase |-> "P"],
          [key |-> "K", secret |-> "S", passphrase |-> ""] }

Fmts == {"csv", "jsonl", "xml"}
CcyArgs == {None, Some(<<"U", "S", "D", "T">>)}
TimeArgs == {None} \cup {Some(t) : t \in 1..MaxTs}
AddrArgs == {None, Some({<<"a", "b", "c", "1">>})}

\* a file left at out_path by an earlier run
OldLine == [kind |-> "old", cols |-> <<>>, vals |-> <<>>, id |-> <<>>]

NoReq == [params |-> <<>>, path |-> <<>>, ts |-> 0, sign |-> <<>>]

\* variant: only the key looked at
MissingCreds_keyOnly(e) == e.key = ""

\* the checks at the head of dump_withdrawals
MissingCreds(e) == e.key = "" \/ e.secret = "" \/ e.passphrase = ""
Supported(f) == f \in {"jsonl", "csv"}

\* A run that is rejected before the loop never reaches the server, so such
\* runs are started against the empty history with no filters only.
Init ==
    /\ env \in Envs
    /\ fmt \in Fmts
    /\ IF MissingCreds(env) \/ ~Supported(fmt)
       THEN /\ history = <<>>
            /\ pageCap = 1
            /\ ccy = None /\ start_ms = None /\ end_ms = None /\ addr_set = None
       ELSE /\ history \in Histories
            /\ pageCap \in 1..PageCap
            /\ ccy \in CcyArgs
            /\ start_ms \in TimeArgs
            /\ end_ms \in TimeArgs
            /\ addr_set \in AddrArgs
    /\ pc = "start"
    /\ f_out = "none"
    /\ out = <<OldLine>>
    /\ saved = 0
    /\ field_order = <<>>
    /\ csv_writer = None
    /\ after_cursor = None
    /\ page_idx = 0
    /\ req = NoReq
    /\ errors = 0
    /\ backoffs = <<>>
    /\ resp = <<>>
    /\ now = 1
    /\ requests = <<>>
    /\ attempts = <<>>
    /\ pages = <<>>
    /\ answers = <<>>
    /\ progress = <<>>
    /\ stop = ""
    /\ result = <<>>

\* -------------------------------------------------------- dump_withdrawals
\* credentials check, build_session, opening of the output
Start ==
    /\ pc = "start"
    /\ IF MissingCreds(env)
       THEN /\ pc' = "raised"
            /\ result' = <<"raise", "SystemExit">>
            /\ UNCHANGED <<f_out, out>>
       ELSE IF Supported(fmt)
       THEN /\ pc' = "loop"
            /\ f_out' = "open"
            /\ out' = <<>>
            /\ UNCHANGED result
       ELSE /\ pc' = "raised"
            /\ result' = <<"raise", "SystemExit">>
            /\ UNCHANGED <<f_out, out>>
    /\ UNCHANGED <<server, argv, env, saved, field_order, csv_writer, loopv, transport>>

\* top of the loop: build params, okx_get signs and sends the first attempt
SendRequest ==
    /\ pc = "loop"
    /\ Len(requests) < MaxRequests
    /\ LET params == BuildParams(ccy, end_ms, after_cursor)
           request_path == RequestPath(ENDPOINT, params)
           ts == now
           signature == Sign(env.secret, ts, "GET", request_path, "")
       IN  /\ req' = [params |-> params, path |-> request_path, ts |-> ts, sign |-> signature]
           /\ requests' = Append(requests, params)
           /\ attempts' = Append(attempts, [n |-> Len(requests) + 1, ts |-> ts, sign |-> signature])
    /\ errors' = 0
    /\ backoffs' = <<>>
    /\ now' = now + 1
    /\ pc' = "wait"
    /\ UNCHANGED <<server, argv, env, writer, loopv, resp, pages, answers, result>>

\* variant: no finally clause
Close_missing == UNCHANGED f_out

\* the finally clause: flush and close
Close == f_out' = (IF f_out = "open" THEN "closed" ELSE f_out)

\* HTTP 200 with code "0": okx_get returns the body
RespondOk ==
    /\ pc = "wait"
    /\ resp' = ServerPage(history, req.params, pageCap)
    /\ pages' = Append(pages, resp')
    /\ answers' = Append(answers, "ok")
    /\ pc' = "page"
    /\ UNCHANGED <<server, argv, env, writer, loopv, req, errors, backoffs, now,
                   requests, attempts, result>>

\* variant: a non-zero code handled like a status of status_forcelist
RespondApiError_retry ==
    /\ pc = "wait"
    /\ IF errors < RETRY_TOTAL
       THEN /\ errors' = errors + 1
            /\ backoffs' = Append(backoffs, BackoffTime(errors + 1))
            /\ now' = now + BackoffTime(errors + 1) + 1
            /\ attempts' = Append(attempts, [n |-> Len(requests), ts |-> req.ts, sign |-> req.sign])
            /\ UNCHANGED <<pc, result, f_out>>
       ELSE /\ errors' = errors + 1
            /\ pc' = "raised"
            /\ result' = <<"raise", "RuntimeError">>
            /\ Close
            /\ UNCHANGED <<backoffs, now, attempts>>
    /\ answers' = Append(answers, "api")
    /\ UNCHANGED <<server, argv, env, out, saved, field_order, csv_writer, loopv,
                   req, resp, requests, pages>>

\* HTTP 200 with code other than "0": okx_get raises RuntimeError
RespondApiError ==
    /\ pc = "wait"
    /\ pc' = "raised"
    /\ result' = <<"raise", "RuntimeError">>
    /\ answers' = Append(answers, "api")
    /\ Close
    /\ UNCHANGED <<server, argv, env, out, saved, field_order, csv_writer, loopv,
                   req, errors, backoffs, resp, now, requests, attempts, pages>>

\* variant: what was written is lost when the request fails
RespondHttpError_discard ==
    /\ pc = "wait"
    /\ \E status \in FatalStatuses : status \notin STATUS_FORCELIST
    /\ pc' = "raised"
    /\ result' = <<"raise", "HTTPError">>
    /\ answers' = Append(answers, "http")
    /\ out' = <<>>
    /\ Close
    /\ UNCHANGED <<server, argv, env, saved, field_order, csv_writer, loopv,
                   req, errors, backoffs, resp, now, requests, attempts, pages>>

\* a status outside status_forcelist: raise_for_status() raises HTTPError
RespondHttpError ==
    /\ pc = "wait"
    /\ \E status \in FatalStatuses : status \notin STATUS_FORCELIST
    /\ pc' = "raised"
    /\ result' = <<"raise", "HTTPError">>
    /\ answers' = Append(answers, "http")
    /\ Close
    /\ UNCHANGED <<server, argv, env, out, saved, field_order, csv_writer, loopv,
                   req, errors, backoffs, resp, now, requests, attempts, pages>>

\* a status in status_forcelist: the adapter retries the prepared request as
\* it is (same headers) after the backoff, or gives up once total is used up
RespondRetryable ==
    /\ pc = "wait"
    /\ \E status \in STATUS_FORCELIST :
        IF errors < RETRY_TOTAL
        THEN /\ errors' = errors + 1
             /\ backoffs' = Append(backoffs, BackoffTime(errors + 1))
             /\ now' = now + BackoffTime(errors + 1) + 1
             /\ attempts' = Append(attempts, [n |-> Len(requests), ts |-> req.ts, sign |-> req.sign])
             /\ UNCHANGED <<pc, result, f_out>>
        ELSE /\ errors' = errors + 1
             /\ pc' = "raised"
             /\ result' = <<"raise", "RetryError">>
             /\ Close
             /\ UNCHANGED <<backoffs, now, attempts>>
    /\ answers' = Append(answers, "retryable")
    /\ UNCHANGED <<server, argv, env, out, saved, field_order, csv_writer, loopv,
                   req, resp, requests, pages>>

\* variant: the break taken on a page that the filters empty
Exhausted_filtered(rows_all) == Len(FilterRows(rows_all, start_ms, addr_set)) = 0

\* variant: the break taken on a page without a matching address
Exhausted_noAddrMatch(rows_all) == Len(AddrFilter(rows_all, addr_set)) = 0

\* if not rows_all: break
Exhausted(rows_all) == Len(rows_all) = 0

\* variant: the page minimum compared instead of the cursor
EarlyStop_minTs(pstart, cursor) == ~IsNone(pstart) /\ cursor + 1 < ValueOf(pstart)

\* if start_ms is not None and after_cursor < start_ms: break
EarlyStop(pstart, cursor) == ~IsNone(pstart) /\ cursor < ValueOf(pstart)

\* the loop body after okx_get has returned; rows_all, rows and the field
\* order are the values of the iteration's local variables
ProcessPage ==
    /\ pc = "page"
    /\ \E rows_all \in {resp} :
       IF Exhausted(rows_all)
       THEN \* no more pages
            /\ pc' = "done"
            /\ stop' = "exhausted"
            /\ result' = <<"return", saved>>
            /\ Close
            /\ UNCHANGED <<out, saved, field_order, csv_writer, after_cursor, page_idx,
                           progress, now>>
       ELSE \E rows \in {FilterRows(rows_all, start_ms, addr_set)} :
            \E fields \in {IF saved = 0 THEN FieldOrder(rows) ELSE field_order} :
            LET first == (saved = 0)
                fieldnames == IF first /\ fmt = "csv" THEN Some(fields) ELSE csv_writer
                header == IF first /\ fmt = "csv" THEN <<HeaderLine(fields)>> ELSE <<>>
                lines == PageLines(fmt, rows, IF fmt = "csv" THEN ValueOf(fieldnames) ELSE fields)
                cursor == NextCursor(rows_all)
                early == EarlyStop(start_ms, cursor)
            IN  /\ field_order' = fields
                /\ csv_writer' = fieldnames
                /\ out' = out \o header \o lines
                /\ saved' = saved + Len(rows)
                /\ page_idx' = page_idx + 1
                /\ after_cursor' = Some(cursor)
                /\ now' = now + PAGE_SLEEP_MS
                /\ IF early
                   THEN /\ pc' = "done"
                        /\ stop' = "early"
                        /\ result' = <<"return", saved + Len(rows)>>
                        /\ Close
                        /\ UNCHANGED progress
                   ELSE /\ pc' = "loop"
                        /\ progress' = Append(progress,
                               [page |-> page_idx + 1, added |-> Len(rows),
                                total |-> saved + Len(rows), next |-> cursor])
                        /\ UNCHANGED <<stop, result, f_out>>
    /\ UNCHANGED <<server, argv, env, req, errors, backoffs, resp, requests, attempts,
                   pages, answers>>

\* pagination against a server that never answers with a retryable status
Next == Start \/ SendRequest \/ RespondOk \/ RespondApiError \/ RespondHttpError \/ ProcessPage

Spec == Init /\ [][Next]_vars

\* the same run against a server that may also answer with retryable statuses;
\* the histories are kept to one record so that the attempts can be followed
InitRetry ==
    /\ Init
    /\ Len(history) <= 1
    /\ pageCap = 1
    /\ IsNone(ccy) /\ IsNone(start_ms) /\ IsNone(end_ms) /\ IsNone(addr_set)

NextRetry == Next \/ RespondRetryable

SpecRetry == InitRetry /\ [][NextRetry]_vars

\* the fault-prone run under fair scheduling: a step that can be taken is
\* taken, and a request that has been sent is answered (with a page or with
\* an error); the credentials, the format and the currency are fixed and the
\* records of a history are all alike, the page size, the timestamps, the
\* bounds and the address filter range over all their values
InitLive ==
    /\ Init
    /\ ~MissingCreds(env)
    /\ fmt = "csv"
    /\ IsNone(ccy)
    /\ \A i, j \in 1..Len(history) : Keys(history[i]) = Keys(history[j])

SpecLive == InitLive /\ [][Next]_vars /\ WF_vars(Next)

\* the runs that write a CSV file, with every history, page size, start
\* bound and address filter, without currency and end bound
InitCsv ==
    /\ Init
    /\ ~MissingCreds(env)
    /\ fmt = "csv"
    /\ IsNone(ccy) /\ IsNone(end_ms)

SpecCsv == InitCsv /\ [][Next]_vars

\* ------------------------------------------------------------- properties
\* all records fetched so far, in fetch order
Fetched == Concat(pages)

\* the data lines of the output file
DataLines == SelectSeq(out, LAMBDA l : l.kind \in {"row", "json"})

\* the records of the history that a run with the given ccy and end bound asks for
Wanted(h, pccy, pend) == SelectRows(h, pccy, IF IsNone(pend) THEN None
                                             ELSE Some(StrOfInt(ValueOf(pend))), None)

\* C1: a run without a start bound that stops on the server's empty page has
\* fetched every record of the history (of the requested currency and end
\* bound) in some unfiltered batch.
C1_NoRecordSkipped ==
    (pc = "done" /\ stop = "exhausted" /\ IsNone(start_ms))
        => \A r \in Range(Wanted(history, ccy, end_ms)) : r \in Range(Fetched)

\* C2: no record is fetched in two batches (nor twice in one), and no record
\* is written to the output more than once.
C2_NoDuplicates ==
    /\ \A i, j \in 1..Len(Fetched) : i # j => IdOf(Fetched[i]) # IdOf(Fetched[j])
    /\ \A i, j \in 1..Len(DataLines) : i # j => DataLines[i].id # DataLines[j].id

\* a finished run that fetched two non-empty batches and wrote two records
C2_Witness ==
    /\ pc = "done"
    /\ Len(pages) >= 3 /\ Len(pages[1]) > 0 /\ Len(pages[2]) > 0
    /\ Len(DataLines) >= 2

RECURSIVE RunKept(_, _, _, _, _, _, _)
\* The records a fault-free run writes from the top of the loop on, as a
\* function of the server and the arguments: the loop of dump_withdrawals
\* folded over the pages.
RunKept(h, cap, pccy, pstart, pend, paddr, cursor) ==
    LET rows_all == ServerPage(h, BuildParams(pccy, pend, cursor), cap)
    IN  IF Exhausted(rows_all) THEN {}
        ELSE Range(FilterRows(rows_all, pstart, paddr))
             \cup (IF EarlyStop(pstart, NextCursor(rows_all)) THEN {}
                   ELSE RunKept(h, cap, pccy, pstart, pend, paddr, Some(NextCursor(rows_all))))

\* window (s2, e2) is at least as wide as window (s1, e1)
Wider(s1, e1, s2, e2) ==
    /\ IsNone(s2) \/ (~IsNone(s1) /\ ValueOf(s2) <= ValueOf(s1))
    /\ IsNone(e2) \/ (~IsNone(e1) /\ ValueOf(e2) >= ValueOf(e1))

\* the records of a set that lie in the window (s, e), both ends inclusive
Truncate(recs, s, e) ==
    {r \in recs : /\ (IsNone(s) \/ TsOf(r) >= ValueOf(s))
                  /\ (IsNone(e) \/ TsOf(r) <= ValueOf(e))}

\* the ids of the records written by the run
KeptIds == {DataLines[i].id : i \in 1..Len(DataLines)}

\* C3: for the same history, a run with any wider window, truncated to the
\* window of this run, keeps exactly the records this run has kept.
C3_WindowWidening ==
    pc = "done" =>
        \A s2 \in TimeArgs, e2 \in TimeArgs :
            Wider(start_ms, end_ms, s2, e2) =>
                {IdOf(r) : r \in Truncate(RunKept(history, pageCap, ccy, s2, e2, addr_set, None),
                                          start_ms, end_ms)} = KeptIds

\* the run function agrees with the run of the state machine
RunKeptAgrees ==
    pc = "done" =>
        {IdOf(r) : r \in RunKept(history, pageCap, ccy, start_ms, end_ms, addr_set, None)} = KeptIds

\* C4: the `after` cursor of request n+1 is strictly less than the ts of
\* every record of the non-empty unfiltered batch n, under every filter.
C4_CursorMonotone ==
    \A n \in 1..Len(pages) :
        (Len(pages[n]) > 0 /\ n + 1 <= Len(requests)) =>
            /\ HasKey(requests[n + 1], "after")
            /\ \A i \in 1..Len(pages[n]) :
                   IntOfStr(Get(requests[n + 1], "after", <<>>)) < TsOf(pages[n][i])

\* a second request has been sent in a run with both filters configured, after
\* a batch of more than one record
C4_Witness ==
    /\ Len(requests) >= 2
    /\ ~IsNone(start_ms) /\ ~IsNone(addr_set)
    /\ Len(pages) >= 1 /\ Len(pages[1]) >= 2

\* C5: a run that ends by exhaustion has received N non-empty pages of at
\* most LIMIT records and then one empty page, has issued exactly N+1
\* requests, and issues no more; an empty page is always the last page, and
\* a run that returns without one has been stopped by the start bound.
C5_ExhaustionTermination ==
    /\ stop = "exhausted" =>
            /\ pc = "done"
            /\ ~ENABLED Next
            /\ Len(pages) >= 1
            /\ Len(pages[Len(pages)]) = 0
            /\ \A n \in 1..(Len(pages) - 1) : Len(pages[n]) \in 1..LIMIT
            /\ Len(requests) = Len(pages)
    /\ \A n \in 1..Len(pages) :
            Len(pages[n]) = 0 => (n = Len(pages) /\ pc \in {"page", "done"})
    /\ (pc = "done" /\ stop # "exhausted") =>
            (stop = "early" /\ EarlyStop(start_ms, ValueOf(after_cursor)))

\* a run exhausted after two non-empty pages, one of them written to nothing
C5_Witness ==
    /\ stop = "exhausted"
    /\ Len(requests) = 3
    /\ Len(DataLines) = 1

\* C6: once the cursor computed from a page is below the start bound, the run
\* is over: no request follows that page, and the page's records at or above
\* the bound (that pass the address filter) are in the output.
C6_EarlyStop ==
    (~IsNone(start_ms) /\ ~IsNone(after_cursor) /\ ValueOf(after_cursor) < ValueOf(start_ms)) =>
        /\ pc = "done"
        /\ stop = "early"
        /\ ~ENABLED Next
        /\ Len(requests) = Len(pages)
        /\ page_idx = Len(pages)
        /\ ValueOf(after_cursor) = NextCursor(pages[Len(pages)])
        /\ \A r \in Range(pages[Len(pages)]) :
               (TsOf(r) >= ValueOf(start_ms) /\ r \in Range(AddrFilter(<<r>>, addr_set)))
                   => IdOf(r) \in KeptIds

\* an early stop on a page that straddles the start bound
C6_Witness ==
    /\ stop = "early"
    /\ \E r \in Range(pages[Len(pages)]) : TsOf(r) >= ValueOf(start_ms) /\ IdOf(r) \in KeptIds
    /\ \E r \in Range(pages[Len(pages)]) : TsOf(r) < ValueOf(start_ms)

\* the HTTP attempts made for the logical request in flight
AttemptsOfCurrent == {i \in 1..Len(attempts) : attempts[i].n = Len(requests)}

\* the run has failed because the retries of one request were used up
RetriesExhausted == pc = "raised" /\ result[2] = "RetryError"

\* C7 as stated: when every attempt of a request is answered with 503, ten
\* attempts are made before the fatal error and the backoff delays double
\* from 0.5 s.
C7_TenAttempts ==
    RetriesExhausted =>
        /\ Cardinality(AttemptsOfCurrent) = 10
        /\ Len(backoffs) = 9
        /\ backoffs[1] = BACKOFF_FACTOR_MS
        /\ \A k \in 1..(Len(backoffs) - 1) : backoffs[k + 1] = 2 * backoffs[k]

\* C7 amended: eleven attempts are made (the first one and RETRY_TOTAL
\* retries) before the fatal error; no delay precedes the first retry, the
\* delays before retries 2..8 are 1 s, 2 s, ... 64 s, each the double of the
\* one before, and the delays before retries 9 and 10 are capped at 120 s.
C7_RetryBound ==
    /\ Cardinality(AttemptsOfCurrent) <= 11
    /\ RetriesExhausted =>
        /\ Cardinality(AttemptsOfCurrent) = 11
        /\ errors = 11
        /\ backoffs = <<0, 1000, 2000, 4000, 8000, 16000, 32000, 64000, 120000, 120000>>

\* the second request of a run has used up its retries
C7_Witness == RetriesExhausted /\ Len(requests) = 2 /\ Len(backoffs) = RETRY_TOTAL

\* C8: no two HTTP attempts carry the same timestamp and signature.
C8_FreshSignature ==
    \A i, j \in 1..Len(attempts) :
        i # j => ~(attempts[i].ts = attempts[j].ts /\ attempts[i].sign = attempts[j].sign)

\* the header lines of the output file
HeaderRows == {i \in 1..Len(out) : out[i].kind = "header"}

\* C9: the CSV header is written at most once and before every data row.
C9_HeaderOnce ==
    /\ Cardinality(HeaderRows) <= 1
    /\ \A i \in HeaderRows, j \in 1..Len(out) : out[j].kind = "row" => i < j

\* C10: every CSV data row has exactly the columns of the first header
\* written in the run.
C10_SchemaStable ==
    \A j \in 1..Len(out) :
        out[j].kind = "row" =>
            /\ HeaderRows # {}
            /\ LET first == CHOOSE i \in HeaderRows : \A k \in HeaderRows : i <= k
               IN  /\ Range(out[j].cols) = Range(out[first].cols)
                   /\ Len(out[j].vals) = Len(out[first].cols)

\* position of the first occurrence of k in seq
FirstIdx(seq, k) == CHOOSE i \in 1..Len(seq) : seq[i] = k /\ \A j \in 1..(i - 1) : seq[j] # k

\* C11 as stated: every header row lists the canonical columns first, in
\* canonical order, and after them only keys that are not canonical.
C11_CanonicalFirst ==
    \A i \in HeaderRows :
        /\ Len(out[i].cols) >= Len(base_keys)
        /\ SubSeq(out[i].cols, 1, Len(base_keys)) = base_keys
        /\ \A j \in (Len(base_keys) + 1)..Len(out[i].cols) :
               out[i].cols[j] \notin Range(base_keys)

\* C11 amended: the header written on a page lists every key of the rows
\* kept from that page first, in first-seen order (canonical or not), and
\* after them the canonical columns not seen in those rows, in canonical
\* order; no column is listed twice.
C11_HeaderOrder ==
    [][(pc = "page" /\ fmt = "csv" /\ saved = 0 /\ Len(resp) > 0) =>
         LET rows == FilterRows(resp, start_ms, addr_set)
             seen == Concat([i \in 1..Len(rows) |-> Keys(rows[i])])
             n    == Cardinality(Range(seen))
             cols == out'[Len(out) + 1].cols
         IN  /\ Len(out') > Len(out)
             /\ out'[Len(out) + 1].kind = "header"
             /\ \A i, j \in 1..Len(cols) : i # j => cols[i] # cols[j]
             /\ Range(cols) = Range(seen) \cup Range(base_keys)
             /\ \A i \in 1..n : cols[i] \in Range(seen)
             /\ \A i, j \in 1..n :
                    i < j => FirstIdx(seen, cols[i]) < FirstIdx(seen, cols[j])
             /\ \A i, j \in (n + 1)..Len(cols) :
                    i < j => FirstIdx(base_keys, cols[i]) < FirstIdx(base_keys, cols[j])
      ]_vars

\* a header followed by two rows, in which a key that is not canonical
\* stands before a canonical one
C11_Witness ==
    \E i \in HeaderRows :
        /\ i + 2 <= Len(out)
        /\ out[i + 1].kind = "row" /\ out[i + 2].kind = "row"
        /\ \E a, b \in 1..Len(out[i].cols) :
               /\ a < b
               /\ out[i].cols[a] \notin Range(base_keys)
               /\ out[i].cols[b] \in Range(base_keys)

\* C12: the output file is open exactly while the loop runs; when
\* dump_withdrawals has returned (exhaustion or early stop) or has raised
\* from the loop, the file has been closed, and a run that ends without a
\* closed file is one that was rejected before the file was opened.
C12_OutputReleased ==
    /\ pc \in {"loop", "wait", "page"} => f_out = "open"
    /\ pc \in {"done", "raised"} => f_out # "open"
    /\ pc = "done" => (f_out = "closed" /\ stop \in {"exhausted", "early"})
    /\ (pc = "raised" /\ result[2] \in {"RuntimeError", "HTTPError", "RetryError"})
           => f_out = "closed"
    /\ (pc = "raised" /\ f_out = "none") => (result[2] = "SystemExit" /\ requests = <<>>)

\* a run that failed on its second request after writing a record
C12_Witness ==
    /\ pc = "raised"
    /\ result[2] \in {"RuntimeError", "HTTPError"}
    /\ Len(requests) = 2
    /\ Len(DataLines) >= 1
    /\ f_out = "closed"

\* the run has failed in okx_get
FailedInRequest == pc = "raised" /\ result[2] \in {"RuntimeError", "HTTPError", "RetryError"}

\* the ids of the records kept from the pages received so far, in order
KeptOfPages ==
    LET kept == Concat([n \in 1..Len(pages) |-> FilterRows(pages[n], start_ms, addr_set)])
    IN  [i \in 1..Len(kept) |-> IdOf(kept[i])]

\* C13: when request k has failed fatally, the k-1 pages before it have been
\* received, the closed file holds the records kept from them and nothing
\* else but header lines, and every line of the file is complete.
C13_PartialFile ==
    FailedInRequest =>
        /\ Len(pages) = Len(requests) - 1
        /\ f_out = "closed"
        /\ LET written == DataLines
           IN  [i \in 1..Len(written) |-> written[i].id] = KeptOfPages
        /\ \A i \in 1..Len(out) :
               /\ out[i].kind \in {"header", "row", "json"}
               /\ out[i].kind # "header" => Len(out[i].vals) = Len(out[i].cols)
               /\ out[i].kind = "json" <=> fmt = "jsonl"

\* the third request of a run has failed after two records had been written
C13_Witness ==
    /\ FailedInRequest
    /\ Len(requests) = 3
    /\ Len(DataLines) = 2

\* C14: an answer with HTTP success and a code other than "0" is the last
\* answer of the run: the attempt it answers is the last attempt made, the
\* run has raised RuntimeError with the file closed, and no step follows.
C14_ApiErrorFatal ==
    \A i \in 1..Len(answers) :
        answers[i] = "api" =>
            /\ i = Len(answers)
            /\ Len(attempts) = i
            /\ attempts[i].n = Len(requests)
            /\ pc = "raised"
            /\ result = <<"raise", "RuntimeError">>
            /\ f_out = "closed"
            /\ ~ENABLED NextRetry

\* the second request of a run was answered with a retryable status first and
\* with a non-zero code on the retry
C14_Witness ==
    /\ Len(requests) = 2
    /\ Len(answers) >= 3
    /\ answers[Len(answers)] = "api"
    /\ answers[Len(answers) - 1] = "retryable"
    /\ attempts[Len(answers) - 1].n = 2

\* C15: every page that has been processed (every non-empty batch) has its
\* own progress line, with the page index, the number of records kept from
\* the page, the running total and the next cursor.
C15_ProgressPerPage ==
    /\ Len(progress) = page_idx
    /\ \A n \in 1..Len(progress) :
           /\ progress[n].page = n
           /\ progress[n].added = Len(FilterRows(pages[n], start_ms, addr_set))
           /\ progress[n].total =
                  Len(Concat([m \in 1..n |-> FilterRows(pages[m], start_ms, addr_set)]))
           /\ progress[n].next = MinTs(pages[n]) - 1

\* the run has been given an empty credential or an unknown format
ConfigError ==
    \/ env.key = "" \/ env.secret = "" \/ env.passphrase = ""
    \/ fmt \notin {"csv", "jsonl"}

\* C16: a run with an empty credential or an unknown format sends no request
\* and leaves the file at out_path as it found it; it ends with SystemExit.
C16_ConfigAbort ==
    ConfigError =>
        /\ requests = <<>>
        /\ attempts = <<>>
        /\ f_out = "none"
        /\ out = <<OldLine>>
        /\ pc \in {"start", "raised"}
        /\ pc = "raised" => result = <<"raise", "SystemExit">>

\* a run with an empty passphrase and a supported format has been rejected
C16_Witness ==
    /\ pc = "raised"
    /\ env.passphrase = "" /\ env.key # "" /\ env.secret # ""
    /\ fmt = "csv"

\* the smallest ts of a non-empty batch
OldestTs(rows) == CHOOSE m \in {TsOf(r) : r \in Range(rows)} :
                      \A r \in Range(rows) : m <= TsOf(r)

\* C17: the first request has no `after` and has `before` = end_ms exactly
\* when an end bound is configured; request n > 1 has no `before` and has
\* `after` = (oldest ts of unfiltered batch n-1) - 1; no request has both.
C17_ParamProtocol ==
    \A n \in 1..Len(requests) :
        LET p == requests[n] IN
        /\ ~(HasKey(p, "before") /\ HasKey(p, "after"))
        /\ n = 1 =>
              /\ ~HasKey(p, "after")
              /\ HasKey(p, "before") <=> ~IsNone(end_ms)
              /\ HasKey(p, "before") => Get(p, "before", <<>>) = StrOfInt(ValueOf(end_ms))
        /\ n > 1 =>
              /\ ~HasKey(p, "before")
              /\ HasKey(p, "after")
              /\ Len(pages[n - 1]) > 0
              /\ IntOfStr(Get(p, "after", <<>>)) = OldestTs(pages[n - 1]) - 1

\* a run with an end bound has sent its second request after a batch of two
\* records with different ts
C17_Witness ==
    /\ ~IsNone(end_ms)
    /\ Len(requests) >= 2
    /\ Len(pages[1]) = 2
    /\ TsOf(pages[1][1]) # TsOf(pages[1][2])

\* page n is not empty and none of its records passes the filters
FullyFiltered(n) ==
    /\ Len(pages[n]) > 0
    /\ \A r \in Range(pages[n]) :
           \/ ~IsNone(start_ms) /\ TsOf(r) < ValueOf(start_ms)
           \/ ~IsNone(addr_set) /\ FilterRows(<<r>>, None, addr_set) = <<>>

\* C18: after a non-empty page of which nothing was kept has been
\* processed, either the next request has been sent with `after` = (oldest
\* ts of the page) - 1, or the cursor holds that value and the run is at the
\* top of the loop about to send it, or the start bound has stopped the run;
\* a run that ended by exhaustion has received an empty page last.
C18_FilteredPageContinues ==
    /\ \A n \in 1..page_idx :
           FullyFiltered(n) =>
               IF n < Len(requests)
               THEN Get(requests[n + 1], "after", <<>>) = StrOfInt(OldestTs(pages[n]) - 1)
               ELSE /\ after_cursor = Some(OldestTs(pages[n]) - 1)
                    /\ stop # "exhausted"
                    /\ \/ pc = "loop" /\ ENABLED SendRequest
                       \/ /\ pc = "done" /\ stop = "early"
                          /\ ~IsNone(start_ms)
                          /\ OldestTs(pages[n]) - 1 < ValueOf(start_ms)
    /\ stop = "exhausted" => Len(pages[Len(pages)]) = 0

\* the first page held two records, none with a wanted address, and the
\* second request has been sent
C18_Witness ==
    /\ ~IsNone(addr_set)
    /\ Len(pages) >= 1 /\ Len(pages[1]) = 2
    /\ FullyFiltered(1)
    /\ Len(requests) >= 2
    /\ Len(DataLines) = 0

\* the record is at or after the start bound, if one is configured
InWindow(r) == IsNone(start_ms) \/ TsOf(r) >= ValueOf(start_ms)

\* one of the record's address fields contains an entry of the address
\* filter, letter case ignored, if a filter is configured
MatchesAddr(r) ==
    \/ IsNone(addr_set)
    \/ ValueOf(addr_set) = {}
    \/ \E a \in ValueOf(addr_set), k \in Range(AddrFields) :
           /\ a # <<>>
           /\ HasKey(r, k)
           /\ Contains(Lower(PyStr(Get(r, k, EmptyStr))), Lower(a))

\* the records of the pages processed so far, in fetch order
Processed == Concat([n \in 1..page_idx |-> pages[n]])

\* C19: the data lines of the file are, in order and once each, the records
\* of the processed pages that are in the window and match the address
\* filter; every record written has ts >= start_ms.
C19_EmissionFilter ==
    LET kept    == SelectSeq(Processed, LAMBDA r : InWindow(r) /\ MatchesAddr(r))
        written == DataLines
    IN  /\ [i \in 1..Len(written) |-> written[i].id] = [i \in 1..Len(kept) |-> IdOf(kept[i])]
        /\ (IsNone(start_ms) /\ IsNone(addr_set)) => Len(written) = Len(Processed)
        /\ ~IsNone(start_ms) =>
               \A i \in 1..Len(written) :
                   \A r \in Range(history) :
                       IdOf(r) = written[i].id => TsOf(r) >= ValueOf(start_ms)

\* with both filters configured, a record with ts = start_ms has been
\* written and another record of the processed pages has been dropped
C19_Witness ==
    /\ ~IsNone(start_ms) /\ ~IsNone(addr_set)
    /\ \E r \in Range(Processed) : TsOf(r) = ValueOf(start_ms) /\ IdOf(r) \in KeptIds
    /\ \E r \in Range(Processed) : IdOf(r) \notin KeptIds

\* C20: every run ends, by returning or by raising.
C20_Termination == <>(pc \in {"done", "raised"})

\* a run with start bound, end bound and address filter has written a record
\* and has returned after the empty page
C20_Witness ==
    /\ pc = "done"
    /\ stop = "exhausted"
    /\ ~IsNone(start_ms) /\ ~IsNone(end_ms) /\ ~IsNone(addr_set)
    /\ Len(requests) = 2
    /\ Len(DataLines) = 1

\* the bound on the request log never holds a run back
RequestBoundUnused == pc = "loop" => Len(requests) < MaxRequests

====
